---------------------------- MODULE Spec2Model ----------------------------
(***************************************************************************)
(* A model of the libretro session adapter of pockystation-libretro       *)
(* (src/src/lib.rs): the Context that owns the emulated Cpu, the frame     *)
(* step, the savestate entry points, and the AudioBackend sink.            *)
(*                                                                         *)
(* The emulation engine (crate pockystation) is an external collaborator:  *)
(* what the adapter calls on it is modelled by its visible effect, and     *)
(* what run_ticks does to the machine is an input of the frame step.       *)
(***************************************************************************)
EXTENDS Integers, Sequences, FiniteSets, TLC

(***************************************************************************)
(* Option values: None is the empty tuple, Some(x) the one-element tuple.  *)
(***************************************************************************)
None == << >>

Some(x) == << x >>

IsSome(o) == o # << >>

(***************************************************************************)
(* Program constants.                                                      *)
(***************************************************************************)
\* pockystation::memory::flash::FLASH_SIZE (the 128KB memory card image)
FLASH_SIZE == 131072

\* pockystation::memory::bios::BIOS_SIZE (the 16KB BIOS ROM)
BIOS_SIZE == 16384

\* AudioBackend::buffer is [i16; 2048]
BUFFER_LEN == 2048

\* fb_out is [0u32; 32 * 32]: the LCD is 32 rows of 32 one-bit pixels
LCD_DIM == 32

FB_OUT_LEN == LCD_DIM * LCD_DIM

WHITE == 16777215

RTC_SYNC_DELAY_FRAMES == 60

\* headroom added by compute_savestate_max_length
SAVESTATE_HEADROOM == 1024

U8 == 256

U16 == 65536

(***************************************************************************)
(* Bounds of the model.                                                    *)
(***************************************************************************)
\* render_frame calls per behaviour
MaxFrames == 2

\* push_sample calls on one AudioBackend in the specification of the sink
MaxPushes == 2100

\* entries of the system directory in the specification of the BIOS scan
MaxEntries == 2

\* render_frame calls per behaviour in the specification of the countdown
MaxCadenceFrames == 62

\* render_frame calls per behaviour in the specification of the restore
MaxRestoreFrames == 4

(***************************************************************************)
(* BUTTON_MAP and the interrupt lines.  OtherIrq stands for every line of  *)
(* the interrupt controller that BUTTON_MAP does not name.                 *)
(***************************************************************************)
BUTTON_MAP ==
  << <<"A", "ActionButton">>, <<"Up", "UpButton">>, <<"Down", "DownButton">>,
     <<"Left", "LeftButton">>, <<"Right", "RightButton">> >>

Interrupts ==
  {"ActionButton", "UpButton", "DownButton", "LeftButton", "RightButton",
   "OtherIrq"}

JoyPadButtons == {"A", "Up", "Down", "Left", "Right", "B"}

(***************************************************************************)
(* pockystation::rtc::Bcd.  from_binary accepts 0..99 only; bcd() is the   *)
(* packed value, tens digit in the high nibble.                            *)
(***************************************************************************)
Bcd_from_binary(b) == IF b <= 99 THEN Some((b \div 10) * 16 + (b % 10)) ELSE None


RECURSIVE first_bad(_, _)
\* index of the first conversion of `vals` that Bcd::from_binary rejects
\* (where the first unwrap() panics), Len(vals) + 1 when none does
first_bad(vals, i) ==
  IF i > Len(vals) THEN i
  ELSE IF Bcd_from_binary(vals[i]) = None THEN i
  ELSE first_bad(vals, i + 1)

(***************************************************************************)
(* AudioBackend.                                                           *)
(***************************************************************************)
AudioBackend_new == [buffer |-> [i \in 0 .. BUFFER_LEN - 1 |-> 0], pos |-> 0]

\* push_sample flushing only once the cursor is past the end of the buffer
push_sample_flush_past_end(backend, sample) ==
  LET pos == backend.pos
      buf == [backend.buffer EXCEPT ![pos] = sample, ![pos + 1] = sample]
      npos == (pos + 2) % U16
      full == npos > BUFFER_LEN % U16
  IN  [backend |-> [buffer |-> buf, pos |-> IF full THEN 0 ELSE npos],
       flushed |-> IF full THEN << buf >> ELSE << >>,
       oob |-> pos + 1 >= BUFFER_LEN]

\* push_sample storing the sample once instead of twice
push_sample_mono(backend, sample) ==
  LET pos == backend.pos
      buf == [backend.buffer EXCEPT ![pos] = sample]
      npos == (pos + 2) % U16
      full == npos = BUFFER_LEN % U16
  IN  [backend |-> [buffer |-> buf, pos |-> IF full THEN 0 ELSE npos],
       flushed |-> IF full THEN << buf >> ELSE << >>,
       oob |-> pos + 1 >= BUFFER_LEN]

\* push_sample: the sink after the push, the buffer handed to
\* libretro::send_audio_samples if the push flushed, and whether an index
\* was out of the buffer's bounds (a panic)
push_sample(backend, sample) ==
  LET pos == backend.pos
      buf == [backend.buffer EXCEPT ![pos] = sample, ![pos + 1] = sample]
      npos == (pos + 2) % U16
      full == npos = BUFFER_LEN % U16
  IN  [backend |-> [buffer |-> buf, pos |-> IF full THEN 0 ELSE npos],
       flushed |-> IF full THEN << buf >> ELSE << >>,
       oob |-> pos + 1 >= BUFFER_LEN]

RECURSIVE push_samples(_, _, _)
\* the Dac pushing `samples` in order: the sink at the end and the flushed
\* buffers in order
\* (the samples are taken half by half, so that a frame of several hundred
\* of them does not nest as deep as it is long)
push_samples(backend, samples, flushed) ==
  IF samples = << >> THEN [backend |-> backend, flushed |-> flushed]
  ELSE IF Len(samples) = 1
  THEN CHOOSE after \in
         {[backend |-> r.backend, flushed |-> flushed \o r.flushed] :
            r \in {push_sample(backend, samples[1])}} : TRUE
  ELSE LET h == Len(samples) \div 2
       IN  CHOOSE after \in
             {push_samples(a.backend, SubSeq(samples, h + 1, Len(samples)),
                           a.flushed) :
                a \in {push_samples(backend, SubSeq(samples, 1, h),
                                    flushed)}} : TRUE

(***************************************************************************)
(* The frame conversion of render_frame (lines 428-446).                   *)
(***************************************************************************)
\* ((row >> x) & 1): a row of the framebuffer is a u32, held here as its 32
\* bits, row[x] being bit x (bit 0 the least significant)
fb_bit(row, x) == row[x]

\* `off` with the rotation computed as 32 * 32 - off
fb_offset_off_by_one(y, x, rotate) ==
  LET off == y * LCD_DIM + x
  IN  IF rotate THEN LCD_DIM * LCD_DIM - off ELSE off

\* `off` as computed for the pixel (x, y) at lines 437-441
fb_offset(y, x, rotate) ==
  LET off == y * LCD_DIM + x
  IN  IF rotate THEN LCD_DIM * LCD_DIM - off - 1 ELSE off

\* the offsets the two loops assign 0xffffff to: one per zero bit
white_offsets(fb, rotate) ==
  UNION { { fb_offset(y, x, rotate) :
              x \in { x0 \in 0 .. LCD_DIM - 1 : fb_bit(fb[y], x0) = 0 } } :
          y \in 0 .. LCD_DIM - 1 }

\* fb_out as handed to libretro::frame_done: [0u32; 32 * 32] with the
\* assignments of the loops applied (they all store the same value, so
\* their order does not show)
convert_frame(fb, rotate) ==
  LET lit == white_offsets(fb, rotate)
  IN  [off \in 0 .. FB_OUT_LEN - 1 |-> IF off \in lit THEN WHITE ELSE 0]

(***************************************************************************)
(* The emulated machine, as far as the adapter touches it.                 *)
(*   bios, flash   the firmware and the memory card contents               *)
(*   dac           the AudioBackend the Dac pushes samples to              *)
(*   irq           raw level of every interrupt line                       *)
(*   ram_cf        the byte of RAM at 0xcf (the century)                   *)
(*   rtc           the RTC registers, as packed BCD                        *)
(*   lcd           the framebuffer and the rotation flag                   *)
(*   ticks         number of run_ticks(MASTER_CLOCK_HZ / 60) executed      *)
(***************************************************************************)
BlankFb == [y \in 0 .. LCD_DIM - 1 |-> [x \in 0 .. LCD_DIM - 1 |-> 0]]

RtcZero ==
  [seconds |-> 0, minutes |-> 0, hours |-> 0, week_day |-> 0, day |-> 0,
   month |-> 0, year |-> 0]

\* Cpu::new(Interconnect::new(bios, flash, dac)): the machine at power-on
Cpu_new(bios, flash, backend) ==
  [bios |-> bios, flash |-> flash, dac |-> backend,
   irq |-> [i \in Interrupts |-> FALSE], ram_cf |-> 0, rtc |-> RtcZero,
   lcd |-> [framebuffer |-> BlankFb, rotated |-> FALSE], ticks |-> 0]

\* Cpu::reset: the processor and the peripherals restart; the firmware, the
\* memory card, the RAM, the clock and the attached backend are kept
Cpu_reset(cpu) ==
  [cpu EXCEPT !.irq = [i \in Interrupts |-> FALSE],
              !.lcd = [framebuffer |-> BlankFb, rotated |-> FALSE],
              !.ticks = 0]

\* Cpu::run_ticks(MASTER_CLOCK_HZ / 60).  What the emulated program does in
\* one frame is the input `out`: the framebuffer and rotation flag it leaves,
\* what it writes to the memory card (None: nothing), and the samples its
\* Dac pushes.
run_ticks(cpu, out) ==
  LET a == push_samples(cpu.dac, out.samples, << >>)
  IN  [cpu |-> [cpu EXCEPT !.lcd = [framebuffer |-> out.framebuffer,
                                     rotated |-> out.rotated],
                           !.flash = IF out.flash = None THEN @
                                     ELSE out.flash[1],
                           !.dac = a.backend,
                           !.ticks = @ + 1],
       flushed |-> a.flushed]

(***************************************************************************)
(* Artifact loading: load_flash, find_bios, try_bios.                      *)
(*                                                                         *)
(* A file is [meta_ok, is_file, len, open_ok, read_ok, content] where      *)
(* content is what Flash::new / Bios::new make of the bytes: None when     *)
(* they reject them.  A directory is [given, readable, entries]; an entry  *)
(* is a file with entry_ok (the directory iterator yielded it).            *)
(***************************************************************************)
\* load_flash without the comparison of the length with FLASH_SIZE
load_flash_any_length(file) ==
  IF ~file.meta_ok THEN None
  ELSE IF ~file.open_ok THEN None
  ELSE IF ~file.read_ok THEN None
  ELSE file.content

load_flash(file) ==
  IF ~file.meta_ok THEN None
  ELSE IF file.len # FLASH_SIZE THEN None
  ELSE IF ~file.open_ok THEN None
  ELSE IF ~file.read_ok THEN None
  ELSE file.content

try_bios(file) ==
  IF ~file.open_ok THEN None
  ELSE IF ~file.read_ok THEN None
  ELSE file.content

RECURSIVE scan_entries_abort(_, _)
\* the loop giving up at the first entry it cannot use
scan_entries_abort(entries, i) ==
  IF i > Len(entries) THEN None
  ELSE LET e == entries[i]
       IN  IF ~e.entry_ok THEN None
           ELSE IF ~e.meta_ok THEN None
           ELSE IF ~e.is_file THEN None
           ELSE IF e.len # BIOS_SIZE THEN None
           ELSE try_bios(e)

RECURSIVE scan_entries(_, _)
\* the loop `for entry in dir` of find_bios
scan_entries(entries, i) ==
  IF i > Len(entries) THEN None
  ELSE LET e == entries[i]
       IN  IF ~e.entry_ok THEN scan_entries(entries, i + 1)
           ELSE IF ~e.meta_ok THEN scan_entries(entries, i + 1)
           ELSE IF ~e.is_file THEN scan_entries(entries, i + 1)
           ELSE IF e.len # BIOS_SIZE THEN scan_entries(entries, i + 1)
           ELSE IF IsSome(try_bios(e)) THEN try_bios(e)
           ELSE scan_entries(entries, i + 1)

find_bios(dir) ==
  IF ~dir.given THEN None
  ELSE IF ~dir.readable THEN None
  ELSE scan_entries(dir.entries, 1)

(***************************************************************************)
(* The savestate codec (mod savestate, and the engine's Encodable and      *)
(* Decodable).  A savestate buffer is [magic, complete, payload]: whether  *)
(* its header is one Decoder::new accepts, whether the encoded state is    *)
(* all there, and the state it encodes.  The firmware and the audio        *)
(* backend are not part of the encoding.                                   *)
(***************************************************************************)
\* bytes Encoder::new writes before the state
SAVESTATE_HEADER_LEN == 8

\* bytes the encoding of the machine state takes
encoded_len(cpu) == 256

\* what a decoded machine holds where the encoding carries nothing
NoBios == "NoBios"

NoBackend == [buffer |-> [i \in {} |-> 0], pos |-> 0]

savestate_encode(cpu) ==
  [flash |-> cpu.flash, irq |-> cpu.irq, ram_cf |-> cpu.ram_cf,
   rtc |-> cpu.rtc, lcd |-> cpu.lcd, ticks |-> cpu.ticks]

savestate_decode(payload) ==
  [bios |-> NoBios, flash |-> payload.flash, dac |-> NoBackend,
   irq |-> payload.irq, ram_cf |-> payload.ram_cf, rtc |-> payload.rtc,
   lcd |-> payload.lcd, ticks |-> payload.ticks]

\* the payload of a buffer that holds no complete state
NoPayload == savestate_encode(Cpu_new(NoBios, 0, NoBackend))

\* a writer is its capacity in bytes: Some(n) for a slice of n bytes, None
\* for the WriteCounter, which takes everything
writer_takes(capacity, n) == capacity = None \/ n <= capacity[1]

\* save_state: ok, the bytes the writer received, and what it holds
save_state(cpu, capacity) ==
  LET total == SAVESTATE_HEADER_LEN + encoded_len(cpu)
      hdr == writer_takes(capacity, SAVESTATE_HEADER_LEN)
      all == writer_takes(capacity, total)
  IN  [ok |-> all,
       len |-> IF all THEN total
               ELSE IF hdr THEN capacity[1] ELSE 0,
       buf |-> [magic |-> hdr, complete |-> all,
                payload |-> IF all THEN savestate_encode(cpu)
                            ELSE NoPayload]]

compute_savestate_max_length(cpu) ==
  LET r == save_state(cpu, None)
  IN  IF r.ok THEN Some(r.len + SAVESTATE_HEADROOM) ELSE None

\* load_state with the decoded machine made the live one before the BIOS is
\* looked up
load_state_commit_early(cpu, buf, dir) ==
  IF ~buf.magic THEN [ok |-> FALSE, cpu |-> cpu]
  ELSE IF ~buf.complete THEN [ok |-> FALSE, cpu |-> cpu]
  ELSE LET decoded == savestate_decode(buf.payload)
           bios == find_bios(dir)
       IN  IF bios = None THEN [ok |-> FALSE, cpu |-> decoded]
           ELSE [ok |-> TRUE,
                 cpu |-> [decoded EXCEPT !.bios = bios[1],
                                         !.flash = cpu.flash,
                                         !.dac = AudioBackend_new]]

\* load_state attaching the backend of the live machine again
load_state_keep_backend(cpu, buf, dir) ==
  IF ~buf.magic THEN [ok |-> FALSE, cpu |-> cpu]
  ELSE IF ~buf.complete THEN [ok |-> FALSE, cpu |-> cpu]
  ELSE LET decoded == savestate_decode(buf.payload)
           bios == find_bios(dir)
       IN  IF bios = None THEN [ok |-> FALSE, cpu |-> cpu]
           ELSE [ok |-> TRUE,
                 cpu |-> [decoded EXCEPT !.bios = bios[1],
                                         !.flash = cpu.flash,
                                         !.dac = cpu.dac]]

\* load_state: ok and the machine the context holds afterwards
load_state(cpu, buf, dir) ==
  IF ~buf.magic THEN [ok |-> FALSE, cpu |-> cpu]
  ELSE IF ~buf.complete THEN [ok |-> FALSE, cpu |-> cpu]
  ELSE LET decoded == savestate_decode(buf.payload)
           bios == find_bios(dir)
       IN  IF bios = None THEN [ok |-> FALSE, cpu |-> cpu]
           ELSE [ok |-> TRUE,
                 cpu |-> [decoded EXCEPT !.bios = bios[1],
                                         !.flash = cpu.flash,
                                         !.dac = AudioBackend_new]]

(***************************************************************************)
(* poll_controllers and sync_host_rtc.                                     *)
(***************************************************************************)
\* libretro::button_pressed(port, button): `pressed` is the host's input
\* state for the frame, a set of <<port, button>>
button_pressed(pressed, port, button) == << port, button >> \in pressed

RECURSIVE poll_from_press_only(_, _, _, _)
\* the loop writing a line only when its button is held
poll_from_press_only(irq, writes, pressed, i) ==
  IF i > Len(BUTTON_MAP) THEN [irq |-> irq, writes |-> writes]
  ELSE LET retrobutton == BUTTON_MAP[i][1]
           line == BUTTON_MAP[i][2]
       IN  IF button_pressed(pressed, 0, retrobutton)
           THEN poll_from_press_only([irq EXCEPT ![line] = TRUE],
                                     Append(writes, << line, TRUE >>),
                                     pressed, i + 1)
           ELSE poll_from_press_only(irq, writes, pressed, i + 1)

RECURSIVE poll_from(_, _, _, _)
\* the loop over BUTTON_MAP from entry i on: the lines afterwards and the
\* set_raw_interrupt calls made, in order
poll_from(irq, writes, pressed, i) ==
  IF i > Len(BUTTON_MAP) THEN [irq |-> irq, writes |-> writes]
  ELSE LET retrobutton == BUTTON_MAP[i][1]
           line == BUTTON_MAP[i][2]
           active == IF button_pressed(pressed, 0, retrobutton) THEN TRUE
                     ELSE FALSE
       IN  poll_from([irq EXCEPT ![line] = active],
                     Append(writes, << line, active >>), pressed, i + 1)

poll_controllers(cpu, pressed) ==
  LET r == poll_from(cpu.irq, << >>, pressed, 1)
  IN  [cpu |-> [cpu EXCEPT !.irq = r.irq], writes |-> r.writes]

\* `x as u8`
as_u8(x) == x % U8

\* the seconds written, with 60 let through
clamp_secs_sixty(tm_sec) ==
  IF tm_sec >= 0 /\ tm_sec <= 60 THEN as_u8(tm_sec) ELSE 59

\* the seconds written: `match now.tm_sec { s @ 0...59 => s as u8, _ => 59 }`
clamp_secs(tm_sec) == IF tm_sec >= 0 /\ tm_sec <= 59 THEN as_u8(tm_sec) ELSE 59

\* the binary values sync_host_rtc converts, in the order of its unwrap()s
rtc_values(now) ==
  LET year == now.tm_year + 1900
  IN  << as_u8(year \div 100),
         clamp_secs(now.tm_sec),
         as_u8(now.tm_min),
         as_u8(now.tm_hour),
         as_u8(as_u8(now.tm_wday) + 1),
         as_u8(as_u8(now.tm_mday) + 1),
         as_u8(as_u8(now.tm_mon) + 1),
         as_u8(year % 100) >>

\* sync_host_rtc: every conversion is unwrap()ped, so the first value out of
\* Bcd's range panics there; the stores made before it have happened
sync_host_rtc(cpu, now) ==
  LET vals == rtc_values(now)
      bad == first_bad(vals, 1)
      bcd(i) == Bcd_from_binary(vals[i])[1]
      w(i, old) == IF i < bad THEN bcd(i) ELSE old
  IN  [panic |-> bad <= Len(vals),
       cpu |-> [cpu EXCEPT
                  !.ram_cf = w(1, @),
                  !.rtc = [seconds |-> w(2, @.seconds),
                           minutes |-> w(3, @.minutes),
                           hours |-> w(4, @.hours),
                           week_day |-> w(5, @.week_day),
                           day |-> w(6, @.day),
                           month |-> w(7, @.month),
                           year |-> w(8, @.year)]]]

(***************************************************************************)
(* Context.                                                                *)
(***************************************************************************)
\* refresh_variables starting the countdown anew when the synchronization
\* is switched on
refresh_variables_rearm(ctx, vars) ==
  [ctx EXCEPT !.rtc_host_sync = vars.rtc_host_sync,
              !.lcd_rotation_en = vars.lcd_rotation_en,
              !.rtc_sync_counter =
                 IF vars.rtc_host_sync /\ ~ctx.rtc_host_sync THEN 0 ELSE @]

\* refresh_variables: `vars` is what CoreVariables reads from the host
refresh_variables(ctx, vars) ==
  [ctx EXCEPT !.rtc_host_sync = vars.rtc_host_sync,
              !.lcd_rotation_en = vars.lcd_rotation_en]

\* Context::load: the machine, whether find_bios ran, and whether it was
\* built
Context_load(file, dir) ==
  LET flash == load_flash(file)
      bios == find_bios(dir)
  IN  IF flash = None THEN [cpu |-> None, scanned |-> FALSE]
      ELSE IF bios = None THEN [cpu |-> None, scanned |-> TRUE]
      ELSE [cpu |-> Some(Cpu_new(bios[1], flash[1], AudioBackend_new)),
            scanned |-> TRUE]

\* render_frame, lines 412-419: whether this frame synchronizes the clock
sync_due(ctx) == ctx.rtc_host_sync /\ ctx.rtc_sync_counter = 0

\* the countdown decremented first, and set to 60 when that gives zero
countdown_decrement_first(ctx) ==
  IF ctx.rtc_host_sync
  THEN (IF ctx.rtc_sync_counter - 1 = 0 THEN RTC_SYNC_DELAY_FRAMES
        ELSE ctx.rtc_sync_counter - 1)
  ELSE ctx.rtc_sync_counter

\* render_frame, lines 412-419: rtc_sync_counter at the end of the frame
\* (a u32: a value below zero here would be an underflow)
countdown_after(ctx) ==
  IF ctx.rtc_host_sync
  THEN (IF ctx.rtc_sync_counter = 0 THEN RTC_SYNC_DELAY_FRAMES
        ELSE ctx.rtc_sync_counter) - 1
  ELSE ctx.rtc_sync_counter

\* Context::new.  `accept` is the host's answer to set_pixel_format.
\*   ctx         Some(context) for Ok, None for Err
\*   format_set  whether the host now uses Xrgb8888
\*   scanned     whether the system directory was scanned for a BIOS
Context_new(file, accept, dir, vars) ==
  IF ~accept THEN [ctx |-> None, format_set |-> FALSE, scanned |-> FALSE]
  ELSE
    LET l == Context_load(file, dir)
    IN  IF l.cpu = None
        THEN [ctx |-> None, format_set |-> TRUE, scanned |-> l.scanned]
        ELSE
          LET c0 == [cpu |-> l.cpu[1], lcd_rotation_en |-> TRUE,
                     rtc_host_sync |-> FALSE, rtc_sync_counter |-> 0,
                     savestate_max_len |-> 0]
              c1 == refresh_variables(c0, vars)
              max_len == compute_savestate_max_length(c1.cpu)
          IN  IF max_len = None
              THEN [ctx |-> None, format_set |-> TRUE, scanned |-> TRUE]
              ELSE [ctx |-> Some([c1 EXCEPT !.savestate_max_len = max_len[1]]),
                    format_set |-> TRUE, scanned |-> TRUE]

\* render_frame.
\*   panic    an unwrap() of sync_host_rtc panicked: the call does not return
\*   ctx      the context afterwards (at the panic, if any)
\*   writes   the set_raw_interrupt calls of the poll
\*   synced   whether sync_host_rtc was called
\*   ran      whether run_ticks was called
\*   flushed  the buffers passed to send_audio_samples, in order
\*   frame    Some(fb_out) passed to frame_done, None if it was not called
\*   steps    the calls render_frame made, in order
render_frame(ctx, pressed, now, out) ==
  LET p == poll_controllers(ctx.cpu, pressed)
      due == sync_due(ctx)
      s == IF due THEN sync_host_rtc(p.cpu, now)
           ELSE [panic |-> FALSE, cpu |-> p.cpu]
      counter == countdown_after(ctx)
      r == run_ticks(s.cpu, out)
      rotate == ctx.lcd_rotation_en /\ r.cpu.lcd.rotated
  IN  IF s.panic
      THEN [panic |-> TRUE, ctx |-> [ctx EXCEPT !.cpu = s.cpu],
            writes |-> p.writes, synced |-> due, ran |-> FALSE,
            flushed |-> << >>, frame |-> None,
            steps |-> << "poll_controllers", "sync_host_rtc" >>]
      ELSE [panic |-> FALSE,
            ctx |-> [ctx EXCEPT !.cpu = r.cpu, !.rtc_sync_counter = counter],
            writes |-> p.writes, synced |-> due, ran |-> TRUE,
            flushed |-> r.flushed,
            frame |-> Some(convert_frame(r.cpu.lcd.framebuffer, rotate)),
            steps |-> << "poll_controllers" >>
                        \o (IF due THEN << "sync_host_rtc" >> ELSE << >>)
                        \o << "run_ticks", "framebuffer", "frame_done" >>]

(***************************************************************************)
(* State.                                                                  *)
(*   context       None before load_game succeeds, Some(Context) after     *)
(*   pixel_format  the pixel format the host uses                          *)
(*   video         frames the host received: how many, and the last        *)
(*   audio         audio blocks the host received: how many, and the last  *)
(*   savebuf       the host's savestate buffer                             *)
(*   panicked      a call into the core panicked                           *)
(*   last_call     the last call the host made and what came of it         *)
(*                 (args: the inputs of the call; for render_frame also    *)
(*                 the set_raw_interrupt calls of the poll and the lines   *)
(*                 as they were before it, the steps of the frame in       *)
(*                 order and the ticks run before it)                      *)
(*   calls         render_frame calls made so far, and how many of them    *)
(*                 ran with the synchronization enabled since the last     *)
(*                 one that synchronized (None before the first)           *)
(*   sink_log      samples pushed to the attached AudioBackend since it    *)
(*                 was created, samples pushed since load_game, and the    *)
(*                 tone the Dac plays                                      *)
(***************************************************************************)
VARIABLES context, pixel_format, video, audio, savebuf, panicked, last_call,
          calls, sink_log

vars ==
  << context, pixel_format, video, audio, savebuf, panicked, last_call,
     calls, sink_log >>

\* the host's audio record after receiving `flushed`
audio_after(a, flushed) ==
  IF flushed = << >> THEN a
  ELSE [flushes |-> a.flushes + Len(flushed), last |-> flushed[Len(flushed)]]

\* a buffer the core never wrote to
BlankBuf ==
  [magic |-> FALSE, complete |-> FALSE, payload |-> NoPayload]

NoCall ==
  [op |-> "none", ok |-> TRUE, args |-> << >>, scanned |-> FALSE,
   synced |-> FALSE, writes |-> << >>, irq_before |-> << >>,
   steps |-> << >>, ticks_before |-> 0]

Call(op, ok) == [NoCall EXCEPT !.op = op, !.ok = ok]

Init ==
  /\ context = None
  /\ pixel_format = "0RGB1555"
  /\ video = [frames |-> 0, last |-> << >>]
  /\ audio = [flushes |-> 0, last |-> << >>]
  /\ savebuf = BlankBuf
  /\ panicked = FALSE
  /\ last_call = NoCall
  /\ calls = [render_frame |-> 0, since_sync |-> None]
  /\ sink_log = [pushed |-> 0, total |-> 0, tone |-> 1]

\* load_game(path): Context::new(&memory).ok()
LoadGame(file, accept, dir, cv) ==
  /\ context = None
  /\ ~panicked
  /\ \E r \in {Context_new(file, accept, dir, cv)} :
         /\ context' = r.ctx
         /\ pixel_format' = IF r.format_set THEN "XRGB8888" ELSE pixel_format
         /\ last_call' = [Call("load_game", IsSome(r.ctx))
                            EXCEPT !.scanned = r.scanned,
                                   !.args = [file |-> file, accept |-> accept,
                                             dir |-> dir]]
  /\ sink_log' = [sink_log EXCEPT !.pushed = 0, !.total = 0]
  /\ UNCHANGED << video, audio, savebuf, panicked, calls >>

RenderFrame(pressed, now, out) ==
  /\ IsSome(context)
  /\ ~panicked
  /\ \E r \in {render_frame(context[1], pressed, now, out)} :
         /\ context' = Some(r.ctx)
         /\ panicked' = r.panic
         /\ audio' = audio_after(audio, r.flushed)
         /\ video' = IF r.frame = None THEN video
                     ELSE [frames |-> video.frames + 1, last |-> r.frame[1]]
         /\ last_call' = [Call("render_frame", ~r.panic)
                            EXCEPT !.synced = r.synced, !.writes = r.writes,
                                   !.irq_before = context[1].cpu.irq,
                                   !.steps = r.steps,
                                   !.ticks_before = context[1].cpu.ticks,
                                   !.args = [pressed |-> pressed,
                                             now |-> IF r.synced
                                                     THEN Some(now)
                                                     ELSE None]]
         /\ calls' = [render_frame |-> calls.render_frame + 1,
                      since_sync |->
                        IF r.synced THEN Some(0)
                        ELSE IF context[1].rtc_host_sync
                                  /\ IsSome(calls.since_sync)
                             THEN Some(calls.since_sync[1] + 1)
                             ELSE calls.since_sync]
         /\ sink_log' = [sink_log EXCEPT
                           !.pushed = IF r.ran THEN @ + Len(out.samples) ELSE @,
                           !.total = IF r.ran THEN @ + Len(out.samples) ELSE @]
  /\ UNCHANGED << pixel_format, savebuf >>

RefreshVariables(cv) ==
  /\ IsSome(context)
  /\ ~panicked
  /\ context' = Some(refresh_variables(context[1], cv))
  /\ last_call' = Call("refresh_variables", TRUE)
  /\ UNCHANGED << pixel_format, video, audio, savebuf, panicked, calls,
                  sink_log >>

\* reset building the context anew around the machine
Reset_reinitializing ==
  /\ IsSome(context)
  /\ ~panicked
  /\ context' = Some([context[1] EXCEPT !.cpu = Cpu_reset(@),
                                        !.rtc_host_sync = FALSE,
                                        !.lcd_rotation_en = TRUE,
                                        !.rtc_sync_counter = 0])
  /\ last_call' = Call("reset", TRUE)
  /\ UNCHANGED << pixel_format, video, audio, savebuf, panicked, calls,
                  sink_log >>

Reset ==
  /\ IsSome(context)
  /\ ~panicked
  /\ context' = Some([context[1] EXCEPT !.cpu = Cpu_reset(@)])
  /\ last_call' = Call("reset", TRUE)
  /\ UNCHANGED << pixel_format, video, audio, savebuf, panicked, calls,
                  sink_log >>

\* serialize detaching the audio backend while it encodes the machine
Serialize_detaching(capacity) ==
  /\ IsSome(context)
  /\ ~panicked
  /\ \E r \in {save_state(context[1].cpu, Some(capacity))} :
         /\ savebuf' = r.buf
         /\ last_call' = [Call("serialize", r.ok)
                            EXCEPT !.args = [capacity |-> capacity,
                                             after_failure |->
                                               /\ last_call.op = "serialize"
                                               /\ ~last_call.ok]]
  /\ context' = Some([context[1] EXCEPT !.cpu.dac = AudioBackend_new])
  /\ UNCHANGED << pixel_format, video, audio, panicked, calls, sink_log >>

\* serialize(buf), buf a slice of `capacity` bytes
Serialize(capacity) ==
  /\ IsSome(context)
  /\ ~panicked
  /\ \E r \in {save_state(context[1].cpu, Some(capacity))} :
         /\ savebuf' = r.buf
         /\ last_call' = [Call("serialize", r.ok)
                            EXCEPT !.args = [capacity |-> capacity,
                                             after_failure |->
                                               /\ last_call.op = "serialize"
                                               /\ ~last_call.ok]]
  /\ UNCHANGED << context, pixel_format, video, audio, panicked, calls,
                  sink_log >>

\* unserialize(buf)
Unserialize(buf, dir) ==
  /\ IsSome(context)
  /\ ~panicked
  /\ \E r \in {load_state(context[1].cpu, buf, dir)} :
         /\ context' = Some([context[1] EXCEPT !.cpu = r.cpu])
         /\ last_call' = Call("unserialize", r.ok)
         /\ sink_log' = [sink_log EXCEPT !.pushed = IF r.ok THEN 0 ELSE @]
  /\ UNCHANGED << pixel_format, video, audio, savebuf, panicked, calls >>

\* AudioBackend::push_sample, called by the Dac while the machine runs
PushSample(sample) ==
  /\ IsSome(context)
  /\ ~panicked
  /\ sink_log.pushed < MaxPushes
  /\ \E r \in {push_sample(context[1].cpu.dac, sample)} :
         /\ context' = Some([context[1] EXCEPT !.cpu.dac = r.backend])
         /\ audio' = audio_after(audio, r.flushed)
         /\ last_call' = Call("push_sample", ~r.oob)
  /\ sink_log' = [sink_log EXCEPT !.pushed = @ + 1, !.total = @ + 1]
  /\ UNCHANGED << pixel_format, video, savebuf, panicked, calls >>

(***************************************************************************)
(* Inputs.                                                                 *)
(***************************************************************************)
GoodFlash ==
  [meta_ok |-> TRUE, is_file |-> TRUE, len |-> FLASH_SIZE, open_ok |-> TRUE,
   read_ok |-> TRUE, content |-> Some(0)]

\* memory card files: a good one, one byte short, one byte long, rejected
\* by Flash::new, not openable, without metadata
FlashFiles ==
  {GoodFlash,
   [GoodFlash EXCEPT !.len = FLASH_SIZE - 1],
   [GoodFlash EXCEPT !.len = FLASH_SIZE + 1],
   [GoodFlash EXCEPT !.content = None],
   [GoodFlash EXCEPT !.open_ok = FALSE],
   [GoodFlash EXCEPT !.meta_ok = FALSE]}

BiosFile(id) ==
  [entry_ok |-> TRUE, meta_ok |-> TRUE, is_file |-> TRUE, len |-> BIOS_SIZE,
   open_ok |-> TRUE, read_ok |-> TRUE, content |-> Some(id)]

\* a file of the BIOS size that Bios::new rejects
JunkFile == [BiosFile("junk") EXCEPT !.content = None]

Directory(entries) == [given |-> TRUE, readable |-> TRUE, entries |-> entries]

NoDirectory == [given |-> FALSE, readable |-> FALSE, entries |-> << >>]

\* the system directory as the host presents it at a call: not given, with
\* one BIOS after a rejected file, with two BIOS files
Directories ==
  {NoDirectory,
   Directory(<< JunkFile, BiosFile("BiosA") >>),
   Directory(<< BiosFile("BiosB"), BiosFile("BiosA") >>)}

CoreVariables == [rtc_host_sync : BOOLEAN, lcd_rotation_en : BOOLEAN]

\* the settings with display rotation left at its default
SyncVariables == {cv \in CoreVariables : cv.lcd_rotation_en}

\* host clock readings: an ordinary one, and one in the year 10000
TmNow ==
  [tm_sec |-> 30, tm_min |-> 15, tm_hour |-> 10, tm_wday |-> 3,
   tm_mday |-> 4, tm_mon |-> 10, tm_year |-> 126]

TmFar == [TmNow EXCEPT !.tm_year = 8100]

\* framebuffers: all bits set, and one with the single bit (y0, x0) clear
FbOnes == [y \in 0 .. LCD_DIM - 1 |-> [x \in 0 .. LCD_DIM - 1 |-> 1]]

FbHole(y0, x0) == [FbOnes EXCEPT ![y0][x0] = 0]

\* what a frame of emulation does: nothing visible, or a new picture in
\* rotated mode with a write to the memory card and a sample
OutIdle ==
  [framebuffer |-> BlankFb, rotated |-> FALSE, flash |-> None,
   samples |-> << >>]

OutBusy ==
  [framebuffer |-> FbHole(0, 1), rotated |-> TRUE, flash |-> Some(1),
   samples |-> << 5 >>]

\* the frames of the session specification: a busy one with Up held, and a
\* quiet one with the host clock in the year 10000
SessionFrames ==
  {[pressed |-> {<< 0, "Up" >>}, now |-> TmNow, out |-> OutBusy],
   [pressed |-> {}, now |-> TmFar, out |-> OutIdle]}

\* sizes of the buffer the host hands to serialize: empty, too short for
\* the state, and of the length serialize_size() advertises
BufferSizes ==
  IF IsSome(context)
  THEN {0, SAVESTATE_HEADER_LEN, context[1].savestate_max_len}
  ELSE {}

(***************************************************************************)
(* The session: every call the host can make, in any order.                *)
(***************************************************************************)
Next ==
  \/ \E file \in FlashFiles, accept \in BOOLEAN, dir \in Directories,
        cv \in SyncVariables : LoadGame(file, accept, dir, cv)
  \/ /\ calls.render_frame < MaxFrames
     /\ \E f \in SessionFrames : RenderFrame(f.pressed, f.now, f.out)
  \/ \E cv \in SyncVariables : RefreshVariables(cv)
  \/ Reset
  \/ \E capacity \in BufferSizes : Serialize(capacity)
  \/ \E dir \in Directories : Unserialize(savebuf, dir)

Spec == Init /\ [][Next]_vars

(***************************************************************************)
(* The other specifications start from a loaded game: the state that       *)
(* LoadGame(GoodFlash, TRUE, GoodDirectory, cv) leads to from Init.        *)
(***************************************************************************)
GoodDirectory == Directory(<< JunkFile, BiosFile("BiosA") >>)

DefaultVariables == [rtc_host_sync |-> FALSE, lcd_rotation_en |-> TRUE]

Loaded(cv, tone) ==
  /\ context = Context_new(GoodFlash, TRUE, GoodDirectory, cv).ctx
  /\ pixel_format = "XRGB8888"
  /\ video = [frames |-> 0, last |-> << >>]
  /\ audio = [flushes |-> 0, last |-> << >>]
  /\ savebuf = BlankBuf
  /\ panicked = FALSE
  /\ last_call = [Call("load_game", TRUE)
                    EXCEPT !.scanned = TRUE,
                           !.args = [file |-> GoodFlash, accept |-> TRUE,
                                     dir |-> GoodDirectory]]
  /\ calls = [render_frame |-> 0, since_sync |-> None]
  /\ sink_log = [pushed |-> 0, total |-> 0, tone |-> tone]

(***************************************************************************)
(* The audio sink: the Dac pushing one sample after the other.  The i-th   *)
(* sample it pushes is ToneSample(tone, i).                                *)
(***************************************************************************)
Tones == {1, 5}

ToneSample(tone, i) == ((i * tone) % 13) - 6

SinkInit == \E tone \in Tones : Loaded(DefaultVariables, tone)

SinkNext == PushSample(ToneSample(sink_log.tone, sink_log.pushed + 1))

SinkSpec == SinkInit /\ [][SinkNext]_vars

(***************************************************************************)
(* The input poll: frames under different sets of held buttons.            *)
(***************************************************************************)
MappedButtons == {"A", "Up", "Down", "Left", "Right"}

\* what the host reports as held: nothing, one button of port 0 (B is not
\* in BUTTON_MAP), several, all five, and buttons of port 1
PolledInputs ==
  {{}} \cup {{<< 0, b >>} : b \in JoyPadButtons}
       \cup {{<< 0, "A" >>, << 0, "Up" >>},
             {<< 0, "Down" >>, << 0, "Left" >>, << 0, "Right" >>, << 0, "B" >>},
             {<< 0, b >> : b \in MappedButtons},
             {<< 1, "Up" >>},
             {<< 1, "A" >>, << 0, "Right" >>}}

InputInit == Loaded(DefaultVariables, 1)

InputNext ==
  /\ calls.render_frame < MaxFrames
  /\ \E pressed \in PolledInputs, out \in {OutIdle, OutBusy} :
        RenderFrame(pressed, TmNow, out)

InputSpec == InputInit /\ [][InputNext]_vars

(***************************************************************************)
(* The picture: frames over different framebuffers, with the rotation      *)
(* setting changing in between.                                            *)
(***************************************************************************)
\* a framebuffer with the single bit (y0, x0) set
FbDot(y0, x0) == [BlankFb EXCEPT ![y0][x0] = 1]

Framebuffers ==
  {BlankFb, FbOnes, FbHole(0, 0), FbHole(0, 1), FbHole(31, 31),
   FbHole(7, 20), FbDot(30, 2)}

VideoOuts ==
  {[framebuffer |-> fb, rotated |-> r, flash |-> None, samples |-> << >>] :
     fb \in Framebuffers, r \in BOOLEAN}

\* the settings with the clock synchronization left at its default
RotationVariables == {cv \in CoreVariables : ~cv.rtc_host_sync}

VideoInit == \E cv \in RotationVariables : Loaded(cv, 1)

VideoNext ==
  \/ /\ calls.render_frame < MaxFrames
     /\ \E out \in VideoOuts : RenderFrame({}, TmNow, out)
  \/ \E cv \in RotationVariables : RefreshVariables(cv)

VideoSpec == VideoInit /\ [][VideoNext]_vars

(***************************************************************************)
(* The BIOS scan: load_game over system directories of every content.      *)
(***************************************************************************)
\* what an entry of the system directory can be: two BIOS images, a file
\* Bios::new rejects, files one byte short and one byte long, a directory,
\* and entries whose iteration, metadata, open or read fails
EntryKinds ==
  {BiosFile("BiosA"), BiosFile("BiosB"), JunkFile,
   [BiosFile("short") EXCEPT !.len = BIOS_SIZE - 1],
   [BiosFile("long") EXCEPT !.len = BIOS_SIZE + 1],
   [BiosFile("subdir") EXCEPT !.is_file = FALSE],
   [BiosFile("gone") EXCEPT !.entry_ok = FALSE],
   [BiosFile("nometa") EXCEPT !.meta_ok = FALSE],
   [BiosFile("locked") EXCEPT !.open_ok = FALSE],
   [BiosFile("ioerror") EXCEPT !.read_ok = FALSE]}

\* a system directory read_dir refuses
UnreadableDirectory ==
  [given |-> TRUE, readable |-> FALSE, entries |-> << BiosFile("BiosA") >>]

ScanDirectories ==
  {NoDirectory, UnreadableDirectory}
    \cup {Directory(es) :
            es \in UNION {[1 .. n -> EntryKinds] : n \in 0 .. MaxEntries}}

ScanNext ==
  \E dir \in ScanDirectories : LoadGame(GoodFlash, TRUE, dir, DefaultVariables)

ScanSpec == Init /\ [][ScanNext]_vars

(***************************************************************************)
(* The clock: frames of a session with the synchronization enabled, under  *)
(* every reading of the host's seconds.                                    *)
(***************************************************************************)
\* tm_sec as time::now() can give it (an i32): every second of a minute,
\* the leap seconds, and values far outside
SecondsReadings == (0 .. 61) \cup {-1, 62, 100, 255, 256, 315,
                                  2147483647, -2147483647}

ClockVariables == [rtc_host_sync |-> TRUE, lcd_rotation_en |-> TRUE]

ClockInit == Loaded(ClockVariables, 1)

ClockNext ==
  /\ calls.render_frame < MaxFrames
  /\ \E sec \in SecondsReadings :
        RenderFrame({}, [TmNow EXCEPT !.tm_sec = sec], OutIdle)

ClockSpec == ClockInit /\ [][ClockNext]_vars

(***************************************************************************)
(* The countdown: long runs of frames, with the synchronization switched   *)
(* on and off in between.                                                  *)
(***************************************************************************)
CadenceInit == \E cv \in SyncVariables : Loaded(cv, 1)

CadenceNext ==
  \/ /\ calls.render_frame < MaxCadenceFrames
     /\ RenderFrame({}, TmNow, OutIdle)
  \/ \E cv \in SyncVariables : RefreshVariables(cv)

CadenceSpec == CadenceInit /\ [][CadenceNext]_vars

(***************************************************************************)
(* The restore: frames in which the Dac plays a few hundred samples, with  *)
(* savestates taken and restored in between.  The i-th sample played since *)
(* load_game is ToneSample(tone, i).                                       *)
(***************************************************************************)
\* samples the Dac pushes in one frame
BatchSizes == {300, 424}

\* a frame that plays the next n samples and changes nothing else
OutTone(n) ==
  [framebuffer |-> BlankFb, rotated |-> FALSE, flash |-> None,
   samples |-> [i \in 1 .. n |->
                  ToneSample(sink_log.tone, sink_log.total + i)]]

RestoreInit == Loaded(DefaultVariables, 5)

RestoreNext ==
  \/ /\ calls.render_frame < MaxRestoreFrames
     /\ \E n \in BatchSizes : RenderFrame({}, TmNow, OutTone(n))
  \/ /\ IsSome(context)
     /\ Serialize(context[1].savestate_max_len)
  \/ Unserialize(savebuf, GoodDirectory)

RestoreSpec == RestoreInit /\ [][RestoreNext]_vars

(***************************************************************************)
(* Properties of the session.                                              *)
(***************************************************************************)
\* C1: a failed unserialize leaves the context (the machine with its
\* firmware, memory card contents and audio backend) and the host's audio
\* as they were before the call, wherever load_state failed.
C1_FailedUnserializeLeavesAll ==
  [][(last_call'.op = "unserialize" /\ ~last_call'.ok)
       => (context' = context /\ audio' = audio /\ video' = video)]_vars

\* a well-formed buffer holding another state than the live one was refused
\* (the BIOS lookup failed, the last step before the decoded machine is
\* made the live one)
C1_RefusedAfterDecoding ==
  /\ last_call.op = "unserialize"
  /\ ~last_call.ok
  /\ savebuf.magic
  /\ savebuf.complete
  /\ savebuf.payload # savestate_encode(context[1].cpu)

\* C2: after every successful unserialize the machine holds the firmware
\* and the memory card contents the live machine held before the call.
C2_RestoreKeepsLiveFirmwareAndStorage ==
  [][(last_call'.op = "unserialize" /\ last_call'.ok)
       => /\ context'[1].cpu.bios = context[1].cpu.bios
          /\ context'[1].cpu.flash = context[1].cpu.flash]_vars

\* what the pictures of later frames can depend on: the context without
\* the audio backend
Visible(ctx) == [ctx EXCEPT !.cpu.dac = NoBackend]

\* C4: a successful serialize immediately followed by unserialize of the
\* buffer it produced leaves everything later frames depend on as it was
\* (the machine is deterministic: equal machines given equal inputs draw
\* equal frames, and machines with different firmware do not).
C4_RoundTripIsNoOp ==
  [][(last_call.op = "serialize" /\ last_call.ok
        /\ last_call'.op = "unserialize")
       => Visible(context'[1]) = Visible(context[1])]_vars

\* C5: render_frame never fails: no call panics and every call delivers
\* its frame.
C5_RenderFrameNeverFails ==
  /\ ~panicked
  /\ last_call.op = "render_frame" => last_call.ok
  /\ video.frames = calls.render_frame

\* the memory card file loads: exact length, readable, accepted
FlashLoads(file) ==
  /\ file.meta_ok
  /\ file.len = FLASH_SIZE
  /\ file.open_ok
  /\ file.read_ok
  /\ file.content # None

\* some entry of the directory is a readable file of the BIOS size that
\* Bios::new accepts
FirmwareFound(dir) ==
  /\ dir.given
  /\ dir.readable
  /\ \E i \in 1 .. Len(dir.entries) :
        LET e == dir.entries[i]
        IN  /\ e.entry_ok /\ e.meta_ok /\ e.is_file /\ e.len = BIOS_SIZE
            /\ e.open_ok /\ e.read_ok /\ e.content # None

\* C6: load_game yields a context exactly when the host accepted the pixel
\* format, the memory card file loads and a firmware is found; otherwise it
\* reports failure and there is no context.
C6_CreatedExactlyWhenAllLoad ==
  last_call.op = "load_game"
    => /\ IsSome(context) <=> /\ last_call.args.accept
                              /\ FlashLoads(last_call.args.file)
                              /\ FirmwareFound(last_call.args.dir)
       /\ last_call.ok <=> IsSome(context)
       /\ IsSome(context) => context[1].savestate_max_len > 0

C6_Created == last_call.op = "load_game" /\ IsSome(context)

\* C7: load_game with a memory card file of another length than FLASH_SIZE
\* fails and changes nothing outside the call: no context, the host's
\* pixel format, video, audio and buffer as before, no scan for a BIOS.
C7_WrongLengthChangesNothing ==
  [][(last_call'.op = "load_game" /\ last_call'.args.file.len # FLASH_SIZE)
       => /\ ~last_call'.ok
          /\ ~last_call'.scanned
          /\ context' = context
          /\ pixel_format' = pixel_format
          /\ video' = video /\ audio' = audio /\ savebuf' = savebuf]_vars

(***************************************************************************)
(* Properties of the audio sink, the input poll and the picture.           *)
(***************************************************************************)
\* C8: after n pushes on a fresh sink the host has received n div 1024
\* flushes; a flush carries the whole 2048-element buffer, whose elements
\* 2i and 2i+1 are the i-th sample pushed since the flush before.
C8_FlushEvery1024Pushes ==
  LET n == sink_log.pushed
      f == audio.flushes
      since == (f - 1) * 1024
  IN  /\ f = n \div 1024
      /\ f > 0 =>
           /\ DOMAIN audio.last = 0 .. 2047
           /\ \A i \in 0 .. 1023 :
                 /\ audio.last[2 * i] = ToneSample(sink_log.tone, since + i + 1)
                 /\ audio.last[2 * i + 1] = audio.last[2 * i]

C8_SecondFlush == sink_log.pushed = 2048 /\ audio.flushes = 2

\* the button the mapping table of the specification gives for a line
ButtonOfLine ==
  [ActionButton |-> "A", UpButton |-> "Up", DownButton |-> "Down",
   LeftButton |-> "Left", RightButton |-> "Right"]

ButtonLines == DOMAIN ButtonOfLine

\* C9: in every render_frame each of the five button lines is written
\* exactly once, active iff its button of port 0 is held in that frame,
\* whatever the line was before; no other line is written.
C9_LinesFollowButtons ==
  last_call.op = "render_frame"
    => LET w == last_call.writes
           held(line) == << 0, ButtonOfLine[line] >> \in last_call.args.pressed
       IN  /\ \A line \in ButtonLines :
                 /\ Cardinality({i \in 1 .. Len(w) : w[i][1] = line}) = 1
                 /\ context[1].cpu.irq[line] = held(line)
           /\ \A i \in 1 .. Len(w) :
                 /\ w[i][1] \in ButtonLines
                 /\ w[i][2] = held(w[i][1])
           /\ context[1].cpu.irq["OtherIrq"] = last_call.irq_before["OtherIrq"]

\* Up was held alone in the frame before and is released in this one
C9_UpReleased ==
  /\ last_call.op = "render_frame"
  /\ last_call.args.pressed = {}
  /\ \A line \in ButtonLines :
        last_call.irq_before[line] = (line = "UpButton")
  /\ \A line \in ButtonLines : ~context[1].cpu.irq[line]

\* C10: the picture delivered has, at offset p(k), 0xFFFFFF where bit k of
\* the framebuffer (k = 32 * y + x) is 0 and 0 where it is 1, with
\* p(k) = 1024 - k - 1 when rotation is enabled and the LCD is in rotated
\* mode and p(k) = k otherwise; every offset comes from exactly one bit.
C10_PictureOfFramebuffer ==
  (last_call.op = "render_frame" /\ last_call.ok)
    => LET fb == context[1].cpu.lcd.framebuffer
           rot == context[1].lcd_rotation_en /\ context[1].cpu.lcd.rotated
           p(k) == IF rot THEN 1024 - k - 1 ELSE k
       IN  /\ DOMAIN video.last = 0 .. 1023
           /\ \A k \in 0 .. 1023 :
                 video.last[p(k)] =
                   IF fb[k \div 32][k % 32] = 0 THEN 16777215 ELSE 0
           /\ { fb_offset(y, x, rot) : y \in 0 .. 31, x \in 0 .. 31 }
                = 0 .. 1023

\* a rotated picture: the one clear bit, at k = 1, shows at offset 1022
C10_RotatedPicture ==
  /\ last_call.op = "render_frame"
  /\ context[1].lcd_rotation_en
  /\ context[1].cpu.lcd.rotated
  /\ context[1].cpu.lcd.framebuffer = FbHole(0, 1)
  /\ video.last[1022] = 16777215
  /\ video.last[1] = 0

(***************************************************************************)
(* Properties of the BIOS scan.                                            *)
(***************************************************************************)
\* an entry the scan is to accept: a regular file of the BIOS size that can
\* be read and that the recognizer accepts
AcceptedEntry(e) ==
  /\ e.entry_ok /\ e.meta_ok /\ e.is_file
  /\ e.len = 16384
  /\ e.open_ok /\ e.read_ok
  /\ e.content # None

\* C11: the scan returns the first entry, in iteration order, that is a
\* regular file of the BIOS size, readable and accepted by the recognizer,
\* skipping all others; it finds nothing only when there is no such entry
\* or the directory is unavailable.
C11_FirstAcceptedEntry ==
  last_call.op = "load_game"
    => LET dir == last_call.args.dir
           hits == IF dir.given /\ dir.readable
                   THEN {i \in 1 .. Len(dir.entries) :
                           AcceptedEntry(dir.entries[i])}
                   ELSE {}
           first == CHOOSE i \in hits : \A j \in hits : i <= j
       IN  IF hits = {}
           THEN find_bios(dir) = None /\ context = None
           ELSE /\ find_bios(dir) = dir.entries[first].content
                /\ IsSome(context)
                /\ context[1].cpu.bios = dir.entries[first].content[1]

\* two files of the BIOS size, the valid one after the rejected one
C11_FoundBehindRejected ==
  /\ last_call.op = "load_game"
  /\ last_call.args.dir = Directory(<< JunkFile, BiosFile("BiosB") >>)
  /\ IsSome(context)
  /\ context[1].cpu.bios = "BiosB"

(***************************************************************************)
(* Properties of the frame.                                                *)
(***************************************************************************)
\* C12: every render_frame polls the input, makes the RTC check (a sync
\* that is due comes before the engine runs), runs the engine for one frame,
\* reads the framebuffer and delivers one picture, in this order and each
\* once; no call delivers zero or two pictures.
C12_FrameStepsInOrder ==
  last_call.op = "render_frame"
    => /\ last_call.steps =
            << "poll_controllers" >>
              \o (IF last_call.synced THEN << "sync_host_rtc" >> ELSE << >>)
              \o << "run_ticks", "framebuffer", "frame_done" >>
       /\ context[1].cpu.ticks = last_call.ticks_before + 1
       /\ video.frames = calls.render_frame

\* C13: the seconds register a sync writes is BCD 59 for every host
\* seconds value outside 0..59, and for s in 0..59 the BCD encoding of s,
\* tens digit in the high nibble and units digit in the low one.
C13_SecondsClamped ==
  (last_call.op = "render_frame" /\ last_call.synced /\ last_call.ok)
    => LET s == last_call.args.now[1].tm_sec
       IN  context[1].cpu.rtc.seconds =
             IF s \in 0 .. 59 THEN 16 * (s \div 10) + (s % 10) ELSE 89

\* a sync during a leap second
C13_LeapSecond ==
  /\ last_call.op = "render_frame"
  /\ last_call.synced
  /\ last_call.args.now[1].tm_sec = 60
  /\ context[1].cpu.rtc.seconds = 89

(***************************************************************************)
(* Properties of the countdown.                                            *)
(***************************************************************************)
\* C14 as stated: in a frame with the synchronization enabled the countdown
\* is decremented first, the sync runs exactly when the decremented value is
\* zero and the countdown is then 60 at the end of the frame; with it
\* disabled there is no sync and the countdown is unchanged.
C14_DecrementThenSync ==
  [][calls'.render_frame # calls.render_frame
       => IF context[1].rtc_host_sync
          THEN /\ last_call'.synced <=> (context[1].rtc_sync_counter - 1 = 0)
               /\ last_call'.synced => context'[1].rtc_sync_counter = 60
          ELSE /\ ~last_call'.synced
               /\ context'[1].rtc_sync_counter = context[1].rtc_sync_counter]_vars

\* C14 amended: in a frame with the synchronization enabled the sync runs
\* exactly when the countdown is zero at the start of the frame; then the
\* countdown is set to 60, and in every case decremented by one, so that it
\* is 59 when a frame that synchronized returns; with it disabled there is
\* no sync and the countdown is unchanged.
C14_SyncWhenZeroThenDecrement ==
  [][calls'.render_frame # calls.render_frame
       => IF context[1].rtc_host_sync
          THEN /\ last_call'.synced <=> (context[1].rtc_sync_counter = 0)
               /\ last_call'.ok =>
                    context'[1].rtc_sync_counter =
                      (IF context[1].rtc_sync_counter = 0 THEN 60
                       ELSE context[1].rtc_sync_counter) - 1
               /\ (last_call'.ok /\ last_call'.synced) =>
                    context'[1].rtc_sync_counter = 59
          ELSE /\ ~last_call'.synced
               /\ context'[1].rtc_sync_counter = context[1].rtc_sync_counter]_vars

\* a second sync, after the countdown ran from 59 down to zero
C14_SecondSync ==
  /\ last_call.op = "render_frame"
  /\ last_call.synced
  /\ calls.render_frame = 61
  /\ context[1].rtc_sync_counter = 59

(***************************************************************************)
(* Properties of serialize, unserialize and reset.                         *)
(***************************************************************************)
\* C15: serialize, whether it succeeds or fails (also when the buffer is
\* too small and part of it was written), leaves the machine, the firmware,
\* the memory card, the audio sink, the two settings, the countdown and the
\* cached length as they were, and a serialize into a buffer large enough
\* for the encoding succeeds, also after a failed one.
C15_SerializeReadsOnly ==
  [][last_call'.op = "serialize"
       => /\ context' = context
          /\ audio' = audio
          /\ video' = video
          /\ pixel_format' = pixel_format
          /\ (last_call'.args.capacity
                >= SAVESTATE_HEADER_LEN + encoded_len(context[1].cpu))
               => last_call'.ok]_vars

\* a serialize that succeeds right after one that failed on a short buffer
C15_SucceedsAfterFailure ==
  /\ last_call.op = "serialize"
  /\ last_call.ok
  /\ last_call.args.after_failure
  /\ savebuf.payload = savestate_encode(context[1].cpu)
  /\ calls.render_frame > 0

\* C16: a successful unserialize attaches a fresh audio sink with its
\* cursor at 0 and delivers nothing; the samples the old sink held are never
\* delivered: a frame delivers a buffer exactly when the pushes made on the
\* attached sink reach a multiple of 1024, and the buffer holds the last 1024
\* samples pushed on that sink, each twice.
C16_RestoreAttachesFreshSink ==
  [][/\ (last_call'.op = "unserialize" /\ last_call'.ok)
          => /\ context'[1].cpu.dac = AudioBackend_new
             /\ audio' = audio
     /\ calls'.render_frame # calls.render_frame
          => LET before == sink_log.pushed \div 1024
                 after == sink_log'.pushed \div 1024
                 born == sink_log'.total - sink_log'.pushed
                 since == born + (after - 1) * 1024
             IN  IF after = before THEN audio' = audio
                 ELSE /\ audio'.flushes = audio.flushes + 1
                      /\ DOMAIN audio'.last = 0 .. 2047
                      /\ \A i \in 0 .. 1023 :
                            /\ audio'.last[2 * i] =
                                 ToneSample(sink_log.tone, since + i + 1)
                            /\ audio'.last[2 * i + 1] = audio'.last[2 * i]]_vars

\* the first buffer delivered, by a sink attached by a restore made when the
\* old sink held 300 samples
C16_FlushAfterRestore ==
  /\ last_call.op = "render_frame"
  /\ audio.flushes = 1
  /\ sink_log.total - sink_log.pushed = 300
  /\ sink_log.pushed >= 1024

\* C17: reset only resets the machine: the two settings, the countdown,
\* the cached savestate length, the firmware and the memory card contents
\* are as before, and no file is loaded and no directory scanned.
C17_ResetKeepsContext ==
  [][last_call'.op = "reset"
       => /\ context'[1].rtc_host_sync = context[1].rtc_host_sync
          /\ context'[1].lcd_rotation_en = context[1].lcd_rotation_en
          /\ context'[1].rtc_sync_counter = context[1].rtc_sync_counter
          /\ context'[1].savestate_max_len = context[1].savestate_max_len
          /\ context'[1].cpu.bios = context[1].cpu.bios
          /\ context'[1].cpu.flash = context[1].cpu.flash
          /\ ~last_call'.scanned
          /\ pixel_format' = pixel_format
          /\ savebuf' = savebuf]_vars

\* a reset after a frame that synchronized the clock and wrote the card
C17_ResetAfterBusyFrame ==
  /\ last_call.op = "reset"
  /\ context[1].rtc_host_sync
  /\ context[1].rtc_sync_counter = 59
  /\ context[1].cpu.flash = 1
  /\ context[1].cpu.ticks = 0
  /\ calls.render_frame = 1

C19_CursorEvenAndInside ==
  LET pos == context[1].cpu.dac.pos
  IN  /\ pos % 2 = 0
      /\ pos \in 0 .. 2046
      /\ pos + 2 < 65536
      /\ DOMAIN context[1].cpu.dac.buffer = 0 .. 2047
      /\ last_call.op = "push_sample" => last_call.ok
      /\ (sink_log.pushed > 0 /\ sink_log.pushed % 1024 = 0) => pos = 0
      /\ pos = 2 * (sink_log.pushed % 1024)

\* the cursor at its highest, one push before the second flush
C19_CursorAtLastPair ==
  /\ context[1].cpu.dac.pos = 2046
  /\ sink_log.pushed = 2047
  /\ audio.flushes = 1

=============================================================================
